---- MODULE Spec2Model ----
(***************************************************************************)
(* TranslucentTB (src/TranslucentTB/main.cpp): the taskbar state machine   *)
(* and its poll loop.  The `run` structure, the function-local statics of  *)
(* SetWindowBlur, TogglePeek and SetTaskbarBlur, the configuration values  *)
(* and the part of the desktop the program reads and writes (taskbar       *)
(* surfaces, the peek button, top-level windows, the Start menu).          *)
(***************************************************************************)
EXTENDS Integers, Sequences, FiniteSets, TLC

VARIABLES
    \* ---- struct run (main.cpp 49-59)
    exit_reason, main_taskbar, taskbars, should_show_peek, is_running, peek_active,
    \* ---- function-local statics
    is_normal,        \* SetWindowBlur: std::unordered_map<Window, bool>
    cached_peek,      \* TogglePeek
    cached_taskbar,   \* TogglePeek, initialised by the first call
    counter,          \* SetTaskbarBlur
    \* ---- external collaborators
    config,           \* the Config:: values the core reads
    swcaAvailable,    \* user32::SetWindowCompositionAttribute is non-null
    \* ---- the desktop
    osMain,           \* the live Shell_TrayWnd handle
    osSecond,         \* the live Shell_SecondaryTrayWnd handle, or NullWindow
    peekBtn,          \* per primary taskbar surface: is its peek button shown
    surfAccent,       \* per surface: the appearance it currently has
    windows,          \* the top-level windows, in EnumWindows order
    startMon,         \* the display the visible Start menu is on, or NoMonitor
    \* ---- control and observation
    pc,               \* position of wWinMain's message loop
    ticks,            \* number of SetTaskbarBlur calls so far
    refreshed,        \* RefreshHandles ran since the last SetTaskbarBlur call
    events,           \* number of desktop and user events so far
    pendingRefresh,   \* a WM_DISPLAYCHANGE or WM_TASKBARCREATED awaits dispatch
    task,             \* position of the detached thread of IDM_EDITSETTINGS
    tickConfig,       \* the Config values the pass of the tick in progress read
    queue,            \* the posted messages in the thread's message queue
    log,              \* what the last step did (calls issued to the OS)
    history           \* the direct calls made so far (SpecBlur, SpecColor, SpecPeek)

vars == <<exit_reason, main_taskbar, taskbars, should_show_peek, is_running, peek_active,
          is_normal, cached_peek, cached_taskbar, counter, config, swcaAvailable,
          osMain, osSecond, peekBtn, surfAccent, windows, startMon,
          pc, ticks, refreshed, events, pendingRefresh, task, tickConfig, queue, log, history>>

-----------------------------------------------------------------------------
(* Bounds of the model *)

\* SetTaskbarBlur calls explored per run
MaxTicks == 12
\* desktop and user events (Explorer restarts, display changes, peek events,
\* exit requests) per run
MaxEvents == 1
\* direct SetWindowBlur / TogglePeek calls explored by SpecBlur and SpecPeek
MaxCalls == 3
\* top-level windows on the desktop explored by SpecPass
MaxWindows == 2
\* posted messages the queue holds in SpecPump
MaxQueue == 2

-----------------------------------------------------------------------------
(* Data *)

\* enum class MONITORSTATE
MONITORSTATE == {"Normal", "WindowMaximised", "StartMenuOpen"}

\* enum class EXITREASON
EXITREASON == {"NewInstance", "UserAction", "UserActionNoSave"}

\* swca::ACCENT, the keys of NORMAL_BUTTON_MAP
ACCENT == {"ACCENT_NORMAL", "ACCENT_ENABLE_TRANSPARENTGRADIENT", "ACCENT_ENABLE_GRADIENT",
           "ACCENT_ENABLE_BLURBEHIND", "ACCENT_ENABLE_FLUENT"}

\* Config::PEEK, the keys of PEEK_BUTTON_MAP
PEEK == {"Enabled", "DynamicGenerous", "Dynamic", "Disabled"}

\* Window::NullWindow
NullWindow == 0
\* handles a Shell_TrayWnd can have (a restarted Explorer creates a new one)
MainHandles == {1, 2}
\* the handle of the Shell_SecondaryTrayWnd
SecondHandle == 3
Surfaces == MainHandles \cup {SecondHandle}

\* HMONITOR values: the primary display and one other display
Monitors == {"M1", "M2"}
NoMonitor == "none"

\* Window::monitor() of a taskbar surface
monitor(w) == IF w \in MainHandles THEN "M1" ELSE "M2"

\* value of cached_taskbar before TogglePeek's statics are initialised
Unset == -1

-----------------------------------------------------------------------------
(* 32-bit unsigned arithmetic.  A uint32_t is the tuple <<b3, b2, b1, b0>>   *)
(* of its bytes, most significant first: 0xAARRGGBB is <<AA, RR, GG, BB>>.   *)

Byte == 0 .. 255

RECURSIVE BitAnd(_, _)
\* x & y on naturals
BitAnd(x, y) ==
    IF x = 0 \/ y = 0 THEN 0
    ELSE (x % 2) * (y % 2) + 2 * BitAnd(x \div 2, y \div 2)

\* x & m on uint32_t
And32(x, m) == [i \in 1 .. 4 |-> BitAnd(x[i], m[i])]

\* x >> 16 and x << 16 on uint32_t (bits shifted out are lost)
Shr16(x) == <<0, 0, x[1], x[2]>>
Shl16(x) == <<x[3], x[4], 0, 0>>
\* x >> 24 as a number
Shr24(x) == x[1]

\* x + y on uint32_t: byte-wise with carry, modulo 2^32
Add32(x, y) ==
    LET s0 == x[4] + y[4]
        s1 == x[3] + y[3] + (s0 \div 256)
        s2 == x[2] + y[2] + (s1 \div 256)
        s3 == x[1] + y[1] + (s2 \div 256)
    IN  <<s3 % 256, s2 % 256, s1 % 256, s0 % 256>>

\* the literals of SetWindowBlur
Mask_FF00FF00 == <<255, 0, 255, 0>>
Mask_00FF0000 == <<0, 255, 0, 0>>
Mask_000000FF == <<0, 0, 0, 255>>
Mask_00FFFFFF == <<0, 255, 255, 255>>
\* 0x01 << 24
One_Shl24 == <<1, 0, 0, 0>>
\* NULL passed as the colour
NullColor == <<0, 0, 0, 0>>

\* SwapColor with the mask 0xFFFFFF00 in place of 0xFF00FF00: the red lane is
\* kept, the blue byte is added onto it and carries into the alpha lane
SwapColorWideMask(color) ==
    Add32(Add32(And32(color, <<255, 255, 255, 0>>), Shr16(And32(color, Mask_00FF0000))),
          Shl16(And32(color, Mask_000000FF)))

\* policy.nColor as initialised at main.cpp 97
SwapColor(color) ==
    Add32(Add32(And32(color, Mask_FF00FF00), Shr16(And32(color, Mask_00FF0000))),
          Shl16(And32(color, Mask_000000FF)))

\* PolicyColor with the accent test dropped: every accent gets the correction
PolicyColorAnyAccent(appearance, color) ==
    IF Shr24(SwapColor(color)) = 0
    THEN Add32(One_Shl24, And32(SwapColor(color), Mask_00FFFFFF))
    ELSE SwapColor(color)

\* policy.nColor after the fluent correction of main.cpp 112-116
PolicyColor(appearance, color) ==
    IF appearance = "ACCENT_ENABLE_FLUENT" /\ Shr24(SwapColor(color)) = 0
    THEN Add32(One_Shl24, And32(SwapColor(color), Mask_00FFFFFF))
    ELSE SwapColor(color)

-----------------------------------------------------------------------------
(* SetWindowBlur (main.cpp 88-127).  `os` is the part of the state the call *)
(* reads and writes: [is_normal, accent, calls, swca, theme]: calls is the  *)
(* sequence of invocations, swca the sequence of                            *)
(* SetWindowCompositionAttribute calls and theme the sequence of            *)
(* WM_THEMECHANGED messages issued so far in this step.                     *)

\* the window handle still names a taskbar surface
Live(window) == window # NullWindow /\ (window = osMain \/ window = osSecond)

\* is_normal[window] = value (operator[] inserts a missing key)
MemoSet(memo, window, value) ==
    [s \in DOMAIN memo \cup {window} |-> IF s = window THEN value ELSE memo[s]]

\* what the surface shows after the shell handled the request
Shown(accent, window, appearance) ==
    [s \in DOMAIN accent |-> IF s = window /\ Live(window) THEN appearance ELSE accent[s]]

\* NeedsThemeChange that reads false for a surface not yet in the memo
NeedsThemeChangeKnownOnly(memo, window) == window \in DOMAIN memo /\ ~memo[window]

\* the test of main.cpp 103
NeedsThemeChange(memo, window) == window \notin DOMAIN memo \/ ~memo[window]

\* the body of SetWindowBlur for ACCENT_NORMAL (main.cpp 101-111)
BlurNormal(os, window) ==
    IF NeedsThemeChange(os.is_normal, window)
    THEN [os EXCEPT !.theme = Append(@, window),
                    !.accent = Shown(@, window, "ACCENT_NORMAL"),
                    !.is_normal = MemoSet(@, window, TRUE)]
    ELSE os

\* the body of SetWindowBlur for every other accent (main.cpp 112-125)
BlurAccent(os, window, appearance, color) ==
    [os EXCEPT !.swca = Append(@, [window |-> window, accent |-> appearance,
                                   color |-> PolicyColor(appearance, color)]),
               !.accent = Shown(@, window, appearance),
               !.is_normal = MemoSet(@, window, FALSE)]

\* SetWindowBlur that tests the entry point only on the way to the compositing call
SetWindowBlurNormalUnguarded(os, window, appearance, color) ==
    LET called == [os EXCEPT !.calls = Append(@, [window |-> window,
                                 appearance |-> appearance, color |-> color])]
    IN  IF appearance = "ACCENT_NORMAL" THEN BlurNormal(called, window)
        ELSE IF ~swcaAvailable THEN called
        ELSE BlurAccent(called, window, appearance, color)

SetWindowBlur(os, window, appearance, color) ==
    LET called == [os EXCEPT !.calls = Append(@, [window |-> window,
                                 appearance |-> appearance, color |-> color])]
    IN  IF ~swcaAvailable THEN called
        ELSE IF appearance = "ACCENT_NORMAL" THEN BlurNormal(called, window)
        ELSE BlurAccent(called, window, appearance, color)

\* the state SetWindowBlur works on, with nothing issued yet
OsNow == [is_normal |-> is_normal, accent |-> surfAccent,
          calls |-> <<>>, swca |-> <<>>, theme |-> <<>>]

-----------------------------------------------------------------------------
(* TogglePeek (main.cpp 257-280).  `pk` is [cached_peek, cached_taskbar,    *)
(* peekBtn, toggles]; toggles is the sequence of OS-level toggles issued.   *)

\* cached_taskbar once the static is initialised (main.cpp 260)
CachedTaskbar(pk) == IF pk.cached_taskbar = Unset THEN main_taskbar ELSE pk.cached_taskbar

\* MustToggle without the taskbar comparison
MustToggleValueOnly(pk, status) == status # pk.cached_peek

\* the condition of main.cpp 262
MustToggle(pk, status) == status # pk.cached_peek \/ CachedTaskbar(pk) # main_taskbar

TogglePeek(pk, status) ==
    IF MustToggle(pk, status)
    THEN [cached_peek |-> status,
          cached_taskbar |-> main_taskbar,
          \* the button is found only under a live taskbar window
          peekBtn |-> [s \in DOMAIN pk.peekBtn |->
                          IF s = main_taskbar /\ s = osMain THEN status ELSE pk.peekBtn[s]],
          toggles |-> Append(pk.toggles, [status |-> status, taskbar |-> main_taskbar])]
    ELSE [pk EXCEPT !.cached_taskbar = CachedTaskbar(pk)]

PkNow == [cached_peek |-> cached_peek, cached_taskbar |-> cached_taskbar,
          peekBtn |-> peekBtn, toggles |-> <<>>]

-----------------------------------------------------------------------------
(* RefreshHandles (main.cpp 234-255) *)

\* a rebuild that marks every display as hosting a maximised window
RebuiltStateMaximised == "WindowMaximised"

\* the state given to every rediscovered taskbar (main.cpp 247, 253)
RebuiltState == "Normal"

\* RebuiltTaskbars that keeps an entry for the second display whether or not
\* a secondary taskbar is found
RebuiltTaskbarsBothDisplays ==
    [m \in Monitors |->
        IF m = monitor(osMain) THEN [first |-> osMain, second |-> RebuiltState]
        ELSE [first |-> SecondHandle, second |-> RebuiltState]]

\* run.taskbars after the rebuild: the primary taskbar, then every secondary one
RebuiltTaskbars ==
    [m \in {monitor(osMain)} \cup (IF osSecond # NullWindow THEN {monitor(osSecond)} ELSE {}) |->
        IF osSecond # NullWindow /\ m = monitor(osSecond)
        THEN [first |-> osSecond, second |-> RebuiltState]
        ELSE [first |-> osMain, second |-> RebuiltState]]

-----------------------------------------------------------------------------
(* EnumWindowsProcess (main.cpp 386-415).  `st` is [taskbars,               *)
(* should_show_peek, thrown]; thrown records that taskbars.at() raised      *)
(* std::out_of_range, which nothing in the program catches.                 *)

\* the filter of main.cpp 392
Considered(window) == window.visible /\ ~window.cloaked /\ ~window.blacklisted

\* the test of main.cpp 394
MaximisedHere(window) == window.state = "SW_MAXIMIZE" /\ window.on_current_desktop

\* PeekDynamic that leaves out Config::PEEK::Dynamic
PeekDynamicGenerousOnly == config.PEEK = "DynamicGenerous"

\* the test of main.cpp 402
PeekDynamic == config.PEEK = "Dynamic" \/ config.PEEK = "DynamicGenerous"

\* EnumWindowsProcess that marks every display, not only the window's own
EnumWindowsProcessAllDisplays(st, window) ==
    IF ~Considered(window) THEN st
    ELSE IF MaximisedHere(window)
    THEN IF window.monitor \notin DOMAIN st.taskbars
         THEN [st EXCEPT !.thrown = TRUE]
         ELSE [st EXCEPT
                 !.taskbars = [m \in DOMAIN @ |->
                     [@[m] EXCEPT !.second =
                         IF config.DYNAMIC_WS THEN "WindowMaximised" ELSE @]],
                 !.should_show_peek =
                     IF PeekDynamic /\ st.taskbars[window.monitor].first = main_taskbar
                     THEN TRUE ELSE @]
    ELSE IF config.PEEK = "DynamicGenerous" /\ ~st.should_show_peek
            /\ window.state # "SW_SHOWMINIMIZED" /\ window.real
         THEN [st EXCEPT !.should_show_peek = TRUE]
         ELSE st

\* EnumWindowsProcess in which a window that is not maximised takes the mark
\* of its display back
EnumWindowsProcessLastWins(st, window) ==
    IF ~Considered(window) THEN st
    ELSE IF window.monitor \notin DOMAIN st.taskbars
    THEN [st EXCEPT !.thrown = TRUE]
    ELSE IF MaximisedHere(window)
    THEN [st EXCEPT
            !.taskbars[window.monitor].second =
                IF config.DYNAMIC_WS THEN "WindowMaximised" ELSE @,
            !.should_show_peek =
                IF PeekDynamic /\ st.taskbars[window.monitor].first = main_taskbar
                THEN TRUE ELSE @]
    ELSE [st EXCEPT
            !.taskbars[window.monitor].second = "Normal",
            !.should_show_peek =
                IF config.PEEK = "DynamicGenerous"
                   /\ window.state # "SW_SHOWMINIMIZED" /\ window.real
                THEN TRUE ELSE @]

EnumWindowsProcess(st, window) ==
    IF ~Considered(window) THEN st
    ELSE IF MaximisedHere(window)
    THEN IF window.monitor \notin DOMAIN st.taskbars
         THEN [st EXCEPT !.thrown = TRUE]
         ELSE [st EXCEPT
                 !.taskbars[window.monitor].second =
                     IF config.DYNAMIC_WS THEN "WindowMaximised" ELSE @,
                 !.should_show_peek =
                     IF PeekDynamic /\ st.taskbars[window.monitor].first = main_taskbar
                     THEN TRUE ELSE @]
    ELSE IF config.PEEK = "DynamicGenerous" /\ ~st.should_show_peek
            /\ window.state # "SW_SHOWMINIMIZED" /\ window.real
         THEN [st EXCEPT !.should_show_peek = TRUE]
         ELSE st

RECURSIVE EnumWindows(_, _)
\* EnumWindows calls the callback for each window; the exception ends the enumeration
EnumWindows(st, ws) ==
    IF ws = <<>> \/ st.thrown THEN st
    ELSE EnumWindows(EnumWindowsProcess(st, Head(ws)), Tail(ws))

-----------------------------------------------------------------------------
(* SetTaskbarBlur (main.cpp 422-488) *)

\* the test of main.cpp 426
PassDue == counter >= 10

\* PeekReset that shows the button under every policy
PeekResetShown == TRUE

\* main.cpp 430
PeekReset == config.PEEK = "Enabled"

\* a reset that leaves every state as it was
ResetStatesKeep(tb) == tb

\* main.cpp 432-435
ResetStates(tb) == [m \in DOMAIN tb |-> [tb[m] EXCEPT !.second = "Normal"]]

\* ScanWanted that leaves out the peek policies
ScanWantedTrackingOnly == config.DYNAMIC_WS

\* the test of main.cpp 436
ScanWanted == config.DYNAMIC_WS \/ PeekDynamic

\* main.cpp 430-440 on the tracker tb, with EnumWindows visiting ws: reset, then scan
ScanOf(tb, ws) ==
    LET st0 == [taskbars |-> ResetStates(tb), should_show_peek |-> PeekReset,
                thrown |-> FALSE]
    IN  IF ScanWanted THEN EnumWindows(st0, ws) ELSE st0

\* main.cpp 430-440
Scanned == ScanOf(taskbars, windows)

\* main.cpp 444-448: the Start menu's display; at() raises for an unknown display
StartMarked(st) ==
    IF config.DYNAMIC_START /\ startMon # NoMonitor
    THEN IF startMon \in DOMAIN st.taskbars
         THEN [st EXCEPT !.taskbars[startMon].second = "StartMenuOpen"]
         ELSE [st EXCEPT !.thrown = TRUE]
    ELSE st

\* PeekNormalised that resets only the displays with a maximised window
PeekNormalisedKeepStart(st) ==
    IF config.DYNAMIC_WS /\ config.DYNAMIC_REGULAR_ON_PEEK /\ peek_active
    THEN [st EXCEPT !.taskbars = [m \in DOMAIN @ |->
             IF @[m].second = "WindowMaximised" THEN [@[m] EXCEPT !.second = "Normal"]
             ELSE @[m]]]
    ELSE st

\* main.cpp 460-466
PeekNormalised(st) ==
    IF config.DYNAMIC_WS /\ config.DYNAMIC_REGULAR_ON_PEEK /\ peek_active
    THEN [st EXCEPT !.taskbars = ResetStates(@)]
    ELSE st

\* Pass without the TogglePeek call of main.cpp 442
PassWithoutToggle ==
    LET sc == Scanned
        st == StartMarked(sc)
    IN  [taskbars |-> IF sc.thrown \/ st.thrown THEN st.taskbars
                      ELSE PeekNormalised(st).taskbars,
         should_show_peek |-> sc.should_show_peek,
         thrown |-> sc.thrown \/ st.thrown, pk |-> PkNow, peekCalls |-> <<>>]

\* the reconciliation pass, main.cpp 430-468:
\* [taskbars, should_show_peek, thrown, pk, peekCalls]
Pass ==
    LET sc == Scanned
    IN  IF sc.thrown
        THEN [taskbars |-> sc.taskbars, should_show_peek |-> sc.should_show_peek,
              thrown |-> TRUE, pk |-> PkNow, peekCalls |-> <<>>]
        ELSE LET pk == TogglePeek(PkNow, sc.should_show_peek)
                 st == StartMarked(sc)
             IN  [taskbars |-> IF st.thrown THEN st.taskbars ELSE PeekNormalised(st).taskbars,
                  should_show_peek |-> sc.should_show_peek,
                  thrown |-> st.thrown, pk |-> pk,
                  peekCalls |-> <<sc.should_show_peek>>]

\* a tick on which no pass is due leaves run and the peek cache alone
NoPass == [taskbars |-> taskbars, should_show_peek |-> should_show_peek,
           thrown |-> FALSE, pk |-> PkNow, peekCalls |-> <<>>]

\* main.cpp 426: the pass runs only when due
PassOrNot == IF PassDue THEN Pass ELSE NoPass

\* the appearance of a display in a given state (main.cpp 473-485)
StateAppearance(state) ==
    CASE state = "StartMenuOpen" -> "ACCENT_NORMAL"
      [] state = "WindowMaximised" -> config.DYNAMIC_APPEARANCE
      [] state = "Normal" -> config.TASKBAR_APPEARANCE

\* StateColor that ignores DYNAMIC_USE_REGULAR_COLOR
StateColorAlwaysDynamic(state) ==
    CASE state = "StartMenuOpen" -> NullColor
      [] state = "WindowMaximised" -> config.DYNAMIC_COLOR
      [] state = "Normal" -> config.TASKBAR_COLOR

\* the colour of a display in a given state (main.cpp 473-485)
StateColor(state) ==
    CASE state = "StartMenuOpen" -> NullColor
      [] state = "WindowMaximised" ->
            IF config.DYNAMIC_USE_REGULAR_COLOR THEN config.TASKBAR_COLOR
            ELSE config.DYNAMIC_COLOR
      [] state = "Normal" -> config.TASKBAR_COLOR

\* the displays of a tracker in iteration order
MonitorSeq(tb) ==
    (IF "M1" \in DOMAIN tb THEN <<"M1">> ELSE <<>>) \o
    (IF "M2" \in DOMAIN tb THEN <<"M2">> ELSE <<>>)

RECURSIVE ApplyStates(_, _, _)
\* the loop of main.cpp 471-486
ApplyStates(os, tb, ms) ==
    IF ms = <<>> THEN os
    ELSE ApplyStates(SetWindowBlur(os, tb[Head(ms)].first,
                                   StateAppearance(tb[Head(ms)].second),
                                   StateColor(tb[Head(ms)].second)),
                     tb, Tail(ms))

\* CounterNext without the reset of main.cpp 468: only the reset of main.cpp 438 is left
CounterNextScanOnly == (IF PassDue /\ ScanWanted THEN 0 ELSE counter) + 1

\* counter after a tick: reset by a pass (main.cpp 468), then counter++ (main.cpp 487)
CounterNext == (IF PassDue THEN 0 ELSE counter) + 1

-----------------------------------------------------------------------------------------------------------------------------------------------------
(* Inputs *)

\* a top-level window as EnumWindowsProcess and isRealWindow see it
Win(mon, st) ==
    [monitor |-> mon, visible |-> TRUE, cloaked |-> FALSE, blacklisted |-> FALSE,
     state |-> st, on_current_desktop |-> TRUE, real |-> TRUE]

\* 0x00336699 and 0xFF102030
ColorA == <<0, 51, 102, 153>>
ColorB == <<255, 16, 32, 48>>

\* the two option profiles the poll loop is run against
Profiles ==
    { [DYNAMIC_START |-> TRUE, DYNAMIC_REGULAR_ON_PEEK |-> TRUE,
       DYNAMIC_USE_REGULAR_COLOR |-> FALSE,
       TASKBAR_APPEARANCE |-> "ACCENT_NORMAL",
       DYNAMIC_APPEARANCE |-> "ACCENT_ENABLE_BLURBEHIND",
       TASKBAR_COLOR |-> ColorA, DYNAMIC_COLOR |-> ColorB],
      [DYNAMIC_START |-> FALSE, DYNAMIC_REGULAR_ON_PEEK |-> FALSE,
       DYNAMIC_USE_REGULAR_COLOR |-> TRUE,
       TASKBAR_APPEARANCE |-> "ACCENT_ENABLE_FLUENT",
       DYNAMIC_APPEARANCE |-> "ACCENT_ENABLE_GRADIENT",
       TASKBAR_COLOR |-> ColorA, DYNAMIC_COLOR |-> ColorB] }

\* the configurations the poll loop is run against: every combination of
\* DYNAMIC_WS and PEEK with each profile
Configs ==
    { [DYNAMIC_WS |-> ws, PEEK |-> pk, DYNAMIC_START |-> pr.DYNAMIC_START,
       DYNAMIC_REGULAR_ON_PEEK |-> pr.DYNAMIC_REGULAR_ON_PEEK,
       DYNAMIC_USE_REGULAR_COLOR |-> pr.DYNAMIC_USE_REGULAR_COLOR,
       TASKBAR_APPEARANCE |-> pr.TASKBAR_APPEARANCE,
       DYNAMIC_APPEARANCE |-> pr.DYNAMIC_APPEARANCE,
       TASKBAR_COLOR |-> pr.TASKBAR_COLOR, DYNAMIC_COLOR |-> pr.DYNAMIC_COLOR] :
        ws \in BOOLEAN, pk \in PEEK, pr \in Profiles }

\* the desktops the poll loop is started on.  inherited: the desktop is as an
\* instance told to exit with NEW_TTB_INSTANCE left it (main.cpp 699-703, 743):
\* peek button hidden, taskbars blurred
Scenes ==
    { [windows |-> <<Win("M1", "SW_MAXIMIZE")>>, startMon |-> NoMonitor,
       osSecond |-> SecondHandle, swca |-> TRUE, inherited |-> FALSE],
      [windows |-> <<Win("M1", "SW_SHOWNORMAL"), Win("M2", "SW_MAXIMIZE")>>,
       startMon |-> "M2", osSecond |-> SecondHandle, swca |-> TRUE, inherited |-> TRUE],
      [windows |-> <<Win("M2", "SW_MAXIMIZE")>>, startMon |-> NoMonitor,
       osSecond |-> NullWindow, swca |-> TRUE, inherited |-> FALSE],
      [windows |-> <<>>, startMon |-> "M2",
       osSecond |-> NullWindow, swca |-> FALSE, inherited |-> FALSE],
      [windows |-> <<Win("M1", "SW_MAXIMIZE")>>, startMon |-> "M1",
       osSecond |-> NullWindow, swca |-> FALSE, inherited |-> TRUE] }

\* a log entry with nothing in it
NoLog == [op |-> "start", pass |-> FALSE, afterRefresh |-> FALSE, thrown |-> FALSE,
          peekCalls |-> <<>>, toggles |-> <<>>, calls |-> <<>>, swca |-> <<>>,
          theme |-> <<>>, saved |-> FALSE, pending |-> 0, dispatched |-> <<>>,
          before |-> [taskbars |-> <<>>, should_show_peek |-> FALSE]]

-----------------------------------------------------------------------------
(* wWinMain (main.cpp 695-759) *)

\* the state when the message loop is entered (main.cpp 697-727): the
\* configuration is parsed and RefreshHandles has run once
InitRun ==
    /\ exit_reason = "UserAction"
    /\ should_show_peek = TRUE
    /\ is_running = TRUE
    /\ peek_active = FALSE
    /\ is_normal = << >>
    /\ cached_peek = TRUE
    /\ cached_taskbar = Unset
    /\ counter = 10
    /\ main_taskbar = osMain
    /\ taskbars = RebuiltTaskbars
    /\ refreshed = TRUE
    /\ ticks = 0
    /\ events = 0
    /\ pendingRefresh = FALSE
    /\ task = "none"
    /\ tickConfig = <<>>
    /\ queue = <<>>
    /\ log = NoLog
    /\ history = <<>>

\* the desktop of a scene
InitDesktop(scene) ==
    /\ osMain = 1
    /\ osSecond = scene.osSecond
    /\ swcaAvailable = scene.swca
    /\ peekBtn = [h \in MainHandles |-> h # 1 \/ ~scene.inherited]
    /\ surfAccent = [s \in Surfaces |->
                        IF scene.inherited /\ scene.swca /\ Live(s)
                        THEN "ACCENT_ENABLE_BLURBEHIND" ELSE "ACCENT_NORMAL"]
    /\ windows = scene.windows
    /\ startMon = scene.startMon

Init ==
    /\ config \in Configs
    /\ \E scene \in Scenes : InitDesktop(scene)
    /\ pc = "pump"
    /\ InitRun

\* the variables of the desktop and of the configuration
env == <<config, swcaAvailable, osMain, osSecond, windows, startMon, history,
         task, tickConfig, queue>>
\* the variables SetWindowBlur and TogglePeek write
applied == <<is_normal, surfAccent, cached_peek, cached_taskbar, peekBtn>>
\* struct run without the run flags
tracker == <<main_taskbar, taskbars, should_show_peek>>

\* a loop test that never ends the loop
LoopTestForever == "pump"

\* the loop test of main.cpp 730: another iteration, or the code after the loop
LoopTest == IF is_running THEN "pump" ELSE "shutdown"

\* the message loop's SetTaskbarBlur call (main.cpp 738), then the sleep and
\* the loop test (main.cpp 730, 739)
Tick ==
    /\ pc = "tick"
    /\ ticks < MaxTicks
    /\ LET p == PassOrNot
           os == ApplyStates(OsNow, p.taskbars, MonitorSeq(p.taskbars))
           entry == [NoLog EXCEPT !.op = "tick", !.pass = PassDue,
                                  !.afterRefresh = refreshed,
                                  !.before = [taskbars |-> taskbars,
                                              should_show_peek |-> should_show_peek],
                                  !.peekCalls = p.peekCalls, !.toggles = p.pk.toggles]
       IN  IF p.thrown
           THEN /\ pc' = "crashed"
                /\ peekBtn' = p.pk.peekBtn
                /\ log' = [entry EXCEPT !.thrown = TRUE]
                /\ UNCHANGED <<tracker, is_normal, surfAccent, cached_peek,
                               cached_taskbar, counter, refreshed>>
           ELSE /\ pc' = LoopTest
                /\ taskbars' = p.taskbars
                /\ should_show_peek' = p.should_show_peek
                /\ cached_peek' = p.pk.cached_peek
                /\ cached_taskbar' = p.pk.cached_taskbar
                /\ peekBtn' = p.pk.peekBtn
                /\ is_normal' = os.is_normal
                /\ surfAccent' = os.accent
                /\ counter' = CounterNext
                /\ refreshed' = FALSE
                /\ log' = [entry EXCEPT !.calls = os.calls, !.swca = os.swca,
                                        !.theme = os.theme]
                /\ UNCHANGED main_taskbar
    /\ ticks' = ticks + 1
    /\ UNCHANGED <<env, exit_reason, is_running, peek_active, events, pendingRefresh>>

\* PeekMessage finds no message (main.cpp 733)
NoMessage ==
    /\ pc = "pump"
    /\ ~pendingRefresh
    /\ queue = <<>>
    /\ pc' = "tick"
    /\ log' = [NoLog EXCEPT !.op = "idle"]
    /\ UNCHANGED <<env, tracker, applied, exit_reason, is_running, peek_active,
                   counter, ticks, refreshed, events, pendingRefresh>>

\* a handler that ends the loop with the given reason
RequestExit(reason) ==
    /\ pc = "pump"
    /\ events < MaxEvents
    /\ ticks < MaxTicks
    /\ events' = events + 1
    /\ pc' = "tick"
    /\ exit_reason' = reason
    /\ is_running' = FALSE
    /\ log' = [NoLog EXCEPT !.op = "exit_request"]
    /\ UNCHANGED <<env, tracker, applied, peek_active, counter, ticks, refreshed,
                   pendingRefresh>>

\* NEW_TTB_INSTANCE (main.cpp 574-578)
OnNewInstance == RequestExit("NewInstance")
\* WM_CLOSE and IDM_EXIT (main.cpp 591-595, 629-632)
OnExit == RequestExit("UserAction")
\* IDM_EXITWITHOUTSAVING (main.cpp 624-627)
OnExitWithoutSaving == RequestExit("UserActionNoSave")

\* WM_DISPLAYCHANGE and WM_TASKBARCREATED (main.cpp 581-589): RefreshHandles
OnRefresh ==
    /\ pc = "pump"
    /\ pendingRefresh
    /\ pendingRefresh' = FALSE
    /\ pc' = "tick"
    /\ main_taskbar' = osMain
    /\ taskbars' = RebuiltTaskbars
    /\ refreshed' = TRUE
    /\ log' = [NoLog EXCEPT !.op = "refresh"]
    /\ UNCHANGED <<env, should_show_peek, applied, exit_reason, is_running,
                   peek_active, counter, ticks, events>>

\* a desktop event can happen while the loop sleeps or between PeekMessage
\* and SetTaskbarBlur
DesktopEvent(name) ==
    /\ pc \in {"pump", "tick"}
    /\ events < MaxEvents
    /\ events' = events + 1
    /\ log' = [NoLog EXCEPT !.op = name]
    /\ UNCHANGED <<config, swcaAvailable, windows, startMon, tracker, is_normal,
                   cached_peek, cached_taskbar, exit_reason, is_running, counter,
                   pc, ticks, refreshed, history, task, tickConfig, queue>>

\* HandleAeroPeekEvent (main.cpp 417-420); 0x21 is 33, 0x22 is 34
HandleAeroPeekEvent ==
    /\ DesktopEvent("peek_event")
    /\ \E event \in {33, 34} :
          /\ peek_active' = (event = 33)
          /\ peek_active' # peek_active
    /\ UNCHANGED <<osMain, osSecond, peekBtn, surfAccent, pendingRefresh>>

\* Explorer restarts: every taskbar window is created anew, with the default
\* appearance and a visible peek button; WM_TASKBARCREATED is sent
ExplorerRestart ==
    /\ DesktopEvent("explorer_restart")
    /\ osMain' = CHOOSE h \in MainHandles : h # osMain
    /\ peekBtn' = [peekBtn EXCEPT ![osMain'] = TRUE]
    /\ surfAccent' = [s \in Surfaces |-> "ACCENT_NORMAL"]
    /\ pendingRefresh' = TRUE
    /\ UNCHANGED <<osSecond, peek_active>>

\* a display with a taskbar is connected or disconnected; WM_DISPLAYCHANGE is sent
DisplayChange ==
    /\ DesktopEvent("display_change")
    /\ osSecond' = IF osSecond = NullWindow THEN SecondHandle ELSE NullWindow
    /\ surfAccent' = [surfAccent EXCEPT ![SecondHandle] = "ACCENT_NORMAL"]
    /\ pendingRefresh' = TRUE
    /\ UNCHANGED <<osMain, peekBtn, peek_active>>

\* the resolution changes, the taskbars stay; WM_DISPLAYCHANGE is sent
ResolutionChange ==
    /\ DesktopEvent("resolution_change")
    /\ pendingRefresh' = TRUE
    /\ UNCHANGED <<osMain, osSecond, peekBtn, surfAccent, peek_active>>

RECURSIVE RestoreAll(_, _, _)
\* the loop of main.cpp 752-755
RestoreAll(os, tb, ms) ==
    IF ms = <<>> THEN os
    ELSE RestoreAll(SetWindowBlur(os, tb[Head(ms)].first, "ACCENT_NORMAL", NullColor),
                    tb, Tail(ms))

\* the test of main.cpp 743
RestoreWanted == exit_reason # "NewInstance"
\* the test of main.cpp 745
SaveWanted == exit_reason # "UserActionNoSave"

\* after the loop (main.cpp 742-758)
Shutdown ==
    /\ pc = "shutdown"
    /\ pc' = "exited"
    /\ IF RestoreWanted
       THEN LET pk == TogglePeek(PkNow, TRUE)
                os == RestoreAll(OsNow, taskbars, MonitorSeq(taskbars))
            IN  /\ cached_peek' = pk.cached_peek
                /\ cached_taskbar' = pk.cached_taskbar
                /\ peekBtn' = pk.peekBtn
                /\ is_normal' = os.is_normal
                /\ surfAccent' = os.accent
                /\ log' = [NoLog EXCEPT !.op = "shutdown", !.saved = SaveWanted,
                                        !.peekCalls = <<TRUE>>, !.toggles = pk.toggles,
                                        !.calls = os.calls, !.swca = os.swca,
                                        !.theme = os.theme]
       ELSE /\ log' = [NoLog EXCEPT !.op = "shutdown"]
            /\ UNCHANGED applied
    /\ UNCHANGED <<env, tracker, exit_reason, is_running, peek_active, counter,
                   ticks, refreshed, events, pendingRefresh>>

Next ==
    \/ Tick
    \/ NoMessage
    \/ OnNewInstance
    \/ OnExit
    \/ OnExitWithoutSaving
    \/ OnRefresh
    \/ HandleAeroPeekEvent
    \/ ExplorerRestart
    \/ DisplayChange
    \/ ResolutionChange
    \/ Shutdown

Spec == Init /\ [][Next]_vars

\* a step of Tick, told by the count of SetTaskbarBlur calls, which no other
\* action of Next changes; Tick is enabled whenever the call is due
TickStep == pc = "tick" /\ ticks < MaxTicks /\ ticks' = ticks + 1

\* the loop's thread keeps running: a SetTaskbarBlur call that is due returns or
\* throws, and the code after the loop runs
FairSpec == Spec /\ WF_ticks(TickStep) /\ WF_vars(Shutdown)

-----------------------------------------------------------------------------
(* SetWindowBlur and TogglePeek called directly, with any arguments *)

\* the bytes colours are built from: 0x00, 0x01, 0x10, 0xFF
ByteSamples == {0, 1, 16, 255}
\* the colours 0xAARRGGBB over these bytes
ColorSamples == [1 .. 4 -> ByteSamples]

\* one configuration, for the specifications that do not run the poll loop
AnyConfig == CHOOSE c \in Configs : c.DYNAMIC_WS /\ c.PEEK = "Enabled" /\ c.DYNAMIC_START

\* the program before its first tick, on an untouched desktop with both taskbars
InitDirect ==
    /\ config = AnyConfig
    /\ osMain = 1
    /\ osSecond = SecondHandle
    /\ surfAccent = [s \in Surfaces |-> "ACCENT_NORMAL"]
    /\ windows = <<>>
    /\ startMon = NoMonitor
    /\ pc = "pump"
    /\ InitRun

\* one call SetWindowBlur(window, appearance, color)
BlurCall(targets, colors, maxLen) ==
    /\ Len(history) < maxLen
    /\ \E window \in targets, appearance \in ACCENT, color \in colors :
          LET os == SetWindowBlur(OsNow, window, appearance, color)
          IN  /\ is_normal' = os.is_normal
              /\ surfAccent' = os.accent
              /\ log' = [NoLog EXCEPT !.op = "blur", !.calls = os.calls,
                                      !.swca = os.swca, !.theme = os.theme]
              /\ history' = Append(history, [window |-> window, appearance |-> appearance,
                                             color |-> color, swca |-> os.swca,
                                             theme |-> os.theme])
    /\ UNCHANGED <<config, swcaAvailable, osMain, osSecond, windows, startMon, tracker,
                   cached_peek, cached_taskbar, peekBtn, exit_reason, is_running,
                   peek_active, counter, pc, ticks, refreshed, events, pendingRefresh,
                   task, tickConfig, queue>>

\* any sequence of calls on the two live taskbars
BlurAny == BlurCall({1, SecondHandle}, {ColorB}, MaxCalls)

InitBlur ==
    /\ swcaAvailable \in BOOLEAN
    /\ peekBtn = [h \in MainHandles |-> TRUE]
    /\ InitDirect

SpecBlur == InitBlur /\ [][BlurAny]_vars

\* one call with any of the sample colours
BlurOnce == BlurCall({1}, ColorSamples, 1)

SpecColor == InitBlur /\ [][BlurOnce]_vars

\* one call TogglePeek(status)
PeekCall ==
    /\ Len(history) < MaxCalls
    /\ \E status \in BOOLEAN :
          LET pk == TogglePeek(PkNow, status)
          IN  /\ cached_peek' = pk.cached_peek
              /\ cached_taskbar' = pk.cached_taskbar
              /\ peekBtn' = pk.peekBtn
              /\ log' = [NoLog EXCEPT !.op = "peek", !.peekCalls = <<status>>,
                                      !.toggles = pk.toggles]
              /\ history' = Append(history, [status |-> status, taskbar |-> main_taskbar,
                                             toggled |-> pk.toggles # <<>>])
    /\ UNCHANGED <<config, swcaAvailable, osMain, osSecond, windows, startMon, tracker,
                   is_normal, surfAccent, exit_reason, is_running, peek_active, counter,
                   pc, ticks, refreshed, events, pendingRefresh, task, tickConfig, queue>>

\* Explorer restarts and RefreshHandles finds the new taskbars
Recreate ==
    /\ osMain' = CHOOSE h \in MainHandles : h # osMain
    /\ peekBtn' = [peekBtn EXCEPT ![osMain'] = TRUE]
    /\ main_taskbar' = osMain'
    /\ taskbars' = [m \in DOMAIN taskbars |->
                      IF m = monitor(osMain') THEN [first |-> osMain', second |-> RebuiltState]
                      ELSE [taskbars[m] EXCEPT !.second = RebuiltState]]
    /\ log' = [NoLog EXCEPT !.op = "refresh"]
    /\ UNCHANGED <<config, swcaAvailable, osSecond, windows, startMon, should_show_peek,
                   is_normal, surfAccent, cached_peek, cached_taskbar, exit_reason,
                   is_running, peek_active, counter, pc, ticks, refreshed, events,
                   pendingRefresh, history, task, tickConfig, queue>>

InitPeek ==
    /\ swcaAvailable = TRUE
    /\ peekBtn \in [MainHandles -> BOOLEAN]
    /\ peekBtn[2] = TRUE
    /\ InitDirect

NextPeek == PeekCall \/ Recreate

SpecPeek == InitPeek /\ [][NextPeek]_vars

-----------------------------------------------------------------------------
(* The detached thread of IDM_EDITSETTINGS (main.cpp 657-663) next to the   *)
(* message loop.  The thread calls Config::Parse wherever the loop's thread *)
(* is, also inside SetTaskbarBlur, so the call is taken in two steps here:  *)
(* the pass (main.cpp 426-469) and the apply loop (main.cpp 471-487).       *)

\* the menu handler: Config::Save, then the thread is started and detached
OnEditSettings ==
    /\ pc = "pump"
    /\ task = "none"
    /\ task' = "editing"
    /\ pc' = "tick"
    /\ log' = [NoLog EXCEPT !.op = "edit_settings", !.saved = TRUE]
    /\ UNCHANGED <<config, swcaAvailable, osMain, osSecond, windows, startMon, history,
                   tickConfig, queue, tracker, applied, exit_reason, is_running, peek_active,
                   counter, ticks, refreshed, events, pendingRefresh>>

\* the thread: Util::EditFile returns once the editor is closed, then
\* Config::Parse stores the edited values (main.cpp 660-661)
TaskParse ==
    /\ task = "editing"
    /\ task' = "done"
    /\ \E c \in Configs : c # config /\ config' = c
    /\ log' = [NoLog EXCEPT !.op = "parse"]
    /\ UNCHANGED <<swcaAvailable, osMain, osSecond, windows, startMon, history,
                   tickConfig, queue, tracker, applied, exit_reason, is_running, peek_active,
                   counter, pc, ticks, refreshed, events, pendingRefresh>>

\* SetTaskbarBlur up to the end of the pass (main.cpp 424-469)
TickPass ==
    /\ pc = "tick"
    /\ ticks < MaxTicks
    /\ tickConfig' = config
    /\ LET p == PassOrNot
           entry == [NoLog EXCEPT !.op = "pass", !.pass = PassDue,
                                  !.afterRefresh = refreshed,
                                  !.before = [taskbars |-> taskbars,
                                              should_show_peek |-> should_show_peek],
                                  !.peekCalls = p.peekCalls, !.toggles = p.pk.toggles]
       IN  IF p.thrown
           THEN /\ pc' = "crashed"
                /\ peekBtn' = p.pk.peekBtn
                /\ log' = [entry EXCEPT !.thrown = TRUE]
                /\ UNCHANGED <<tracker, cached_peek, cached_taskbar, counter>>
           ELSE /\ pc' = "apply"
                /\ taskbars' = p.taskbars
                /\ should_show_peek' = p.should_show_peek
                /\ cached_peek' = p.pk.cached_peek
                /\ cached_taskbar' = p.pk.cached_taskbar
                /\ peekBtn' = p.pk.peekBtn
                /\ counter' = IF PassDue THEN 0 ELSE counter
                /\ log' = entry
                /\ UNCHANGED main_taskbar
    /\ UNCHANGED <<config, swcaAvailable, osMain, osSecond, windows, startMon, history,
                   task, queue, is_normal, surfAccent, exit_reason, is_running, peek_active,
                   ticks, refreshed, events, pendingRefresh>>

\* the rest of SetTaskbarBlur (main.cpp 471-487), then the sleep and the loop test
TickApply ==
    /\ pc = "apply"
    /\ LET os == ApplyStates(OsNow, taskbars, MonitorSeq(taskbars))
       IN  /\ is_normal' = os.is_normal
           /\ surfAccent' = os.accent
           /\ log' = [NoLog EXCEPT !.op = "tick", !.calls = os.calls, !.swca = os.swca,
                                   !.theme = os.theme]
    /\ counter' = counter + 1
    /\ ticks' = ticks + 1
    /\ refreshed' = FALSE
    /\ pc' = LoopTest
    /\ UNCHANGED <<env, tracker, cached_peek, cached_taskbar, peekBtn, exit_reason,
                   is_running, peek_active, events, pendingRefresh>>

NextEdit ==
    \/ NoMessage
    \/ OnEditSettings
    \/ TaskParse
    \/ TickPass
    \/ TickApply

SpecEdit == Init /\ [][NextEdit]_vars

-----------------------------------------------------------------------------
(* The message loop with posted messages (main.cpp 729-740).  PeekMessage   *)
(* is called once per iteration, with PM_NOREMOVE: it reports the first     *)
(* message of the queue and leaves it there.                                *)

\* the posted messages explored: WM_CLOSE, which has a callback (main.cpp
\* 591-595), and WM_NULL, which has none
Posted == {"WM_CLOSE", "WM_NULL"}

\* another process posts a message to the tray window while the loop runs
Post(msg) ==
    /\ pc \in {"pump", "tick"}
    /\ Len(queue) < MaxQueue
    /\ queue' = Append(queue, msg)
    /\ UNCHANGED <<config, swcaAvailable, osMain, osSecond, windows, startMon, history,
                   task, tickConfig, tracker, applied, exit_reason, is_running,
                   peek_active, counter, pc, ticks, refreshed, events, pendingRefresh,
                   log>>

PostClose == Post("WM_CLOSE")
PostNull == Post("WM_NULL")

\* PeekMessage finds a message: TranslateMessage, DispatchMessage (main.cpp
\* 733-737), and the callback of WM_CLOSE (main.cpp 591-595)
DispatchPosted ==
    /\ pc = "pump"
    /\ queue # <<>>
    /\ pc' = "tick"
    /\ IF Head(queue) = "WM_CLOSE"
       THEN exit_reason' = "UserAction" /\ is_running' = FALSE
       ELSE UNCHANGED <<exit_reason, is_running>>
    /\ log' = [NoLog EXCEPT !.op = "dispatch", !.pending = Len(queue),
                            !.dispatched = <<Head(queue)>>]
    /\ UNCHANGED <<env, tracker, applied, peek_active, counter, ticks, refreshed,
                   events, pendingRefresh>>

NextPump ==
    \/ NoMessage
    \/ DispatchPosted
    \/ PostClose
    \/ PostNull
    \/ Tick
    \/ Shutdown

SpecPump == Init /\ [][NextPump]_vars

-----------------------------------------------------------------------------
(* One SetTaskbarBlur call with a pass due, on any desktop *)

\* the kinds of top-level window EnumWindowsProcess tells apart
WindowSamples ==
    { Win("M1", "SW_MAXIMIZE"), Win("M2", "SW_MAXIMIZE"),
      Win("M1", "SW_SHOWNORMAL"),
      [Win("M1", "SW_SHOWNORMAL") EXCEPT !.real = FALSE],
      Win("M1", "SW_SHOWMINIMIZED"),
      [Win("M1", "SW_MAXIMIZE") EXCEPT !.on_current_desktop = FALSE],
      [Win("M1", "SW_MAXIMIZE") EXCEPT !.blacklisted = TRUE] }

\* what EnumWindows can enumerate: up to MaxWindows windows, in any order
WindowSeqs == UNION { [1 .. n -> WindowSamples] : n \in 0 .. MaxWindows }

\* every combination of the options the pass reads
PassConfigs ==
    { [c EXCEPT !.DYNAMIC_START = s, !.DYNAMIC_REGULAR_ON_PEEK = r] :
        c \in {d \in Configs : d.TASKBAR_APPEARANCE = "ACCENT_NORMAL"},
        s \in BOOLEAN, r \in BOOLEAN }

\* what the tracker and should_show_peek hold when the pass starts: the values
\* of startup (calls = 0), or those an earlier pass left, possibly under
\* settings the menu has changed since
Priors ==
    { [M1 |-> "Normal", M2 |-> "Normal", peek |-> TRUE, calls |-> 0],
      [M1 |-> "WindowMaximised", M2 |-> "StartMenuOpen", peek |-> FALSE, calls |-> 10] }

\* the program about to call SetTaskbarBlur with counter at 10, the tracker
\* and should_show_peek as one of priors has them
InitPassFrom(priors) ==
    /\ config \in PassConfigs
    /\ osMain = 1
    /\ osSecond \in {NullWindow, SecondHandle}
    /\ swcaAvailable = TRUE
    /\ windows \in WindowSeqs
    /\ startMon \in Monitors \cup {NoMonitor}
    /\ peek_active \in BOOLEAN
    /\ main_taskbar = osMain
    /\ \E prior \in priors :
          /\ taskbars = [m \in DOMAIN RebuiltTaskbars |->
                            [RebuiltTaskbars[m] EXCEPT !.second = prior[m]]]
          /\ should_show_peek = prior.peek
          /\ ticks = prior.calls
          /\ refreshed = (prior.calls = 0)
          /\ cached_peek = prior.peek
          /\ cached_taskbar = IF prior.calls = 0 THEN Unset ELSE osMain
          /\ peekBtn = [h \in MainHandles |-> h # osMain \/ prior.peek]
          /\ is_normal = IF prior.calls = 0 THEN << >>
                         ELSE [w \in {osMain, osSecond} \ {NullWindow} |->
                                  StateAppearance(prior[monitor(w)]) = "ACCENT_NORMAL"]
          /\ surfAccent = [w \in Surfaces |->
                              IF prior.calls # 0 /\ Live(w)
                              THEN StateAppearance(prior[monitor(w)])
                              ELSE "ACCENT_NORMAL"]
    /\ exit_reason = "UserAction"
    /\ is_running = TRUE
    /\ counter = 10
    /\ events = 0
    /\ pendingRefresh = FALSE
    /\ task = "none"
    /\ tickConfig = <<>>
    /\ queue = <<>>
    /\ log = NoLog
    /\ history = <<>>
    /\ pc = "tick"

InitPass == InitPassFrom(Priors)

SpecPass == InitPass /\ [][Tick]_vars

\* the first call of a run: the tracker and should_show_peek as startup left them
InitOrder == InitPassFrom({p \in Priors : p.calls = 0})

SpecOrder == InitOrder /\ [][Tick]_vars

-----------------------------------------------------------------------------
(* Properties *)

\* the last step was a SetTaskbarBlur call that returned
TickDone == log.op = "tick" /\ ~log.thrown

\* display m hosts a window that the scan counts as maximised
HostsMaximised(m) ==
    \E i \in DOMAIN windows :
        /\ windows[i].visible /\ ~windows[i].cloaked /\ ~windows[i].blacklisted
        /\ windows[i].state = "SW_MAXIMIZE" /\ windows[i].on_current_desktop
        /\ windows[i].monitor = m

\* the entries of a sequence of calls that name the given window
CallsOn(calls, window) == {i \in DOMAIN calls : calls[i].window = window}

(* C1: SetTaskbarBlur runs a reconciliation pass on its first call and then *)
(* on exactly every 10th call after the previous pass (calls 1, 11, 21,     *)
(* ...), whatever DYNAMIC_WS and PEEK are; no pass runs on the 9 calls in   *)
(* between.                                                                 *)
C1_PassCadence == log.op = "tick" => (log.pass <=> ticks % 10 = 1)

\* the 11th call runs a pass although neither DYNAMIC_WS nor a dynamic peek
\* policy is set
C1_Witness ==
    /\ log.op = "tick" /\ ticks = 11 /\ log.pass
    /\ ~config.DYNAMIC_WS /\ config.PEEK = "Disabled"

(* C2 as stated: the first tick after RefreshHandles runs a pass, so a      *)
(* display that hosts a maximised window is not rendered from the rebuilt   *)
(* Normal state on a tick after the rebuild.                                *)
C2_Original ==
    (TickDone /\ log.afterRefresh) =>
        /\ log.pass
        /\ \A m \in DOMAIN taskbars :
              (/\ config.DYNAMIC_WS /\ HostsMaximised(m)
               /\ ~(config.DYNAMIC_REGULAR_ON_PEEK /\ peek_active)
               /\ ~(config.DYNAMIC_START /\ startMon = m))
              => taskbars[m].second = "WindowMaximised"

(* C2 amended: RefreshHandles rebuilds the tracker with every state Normal  *)
(* and leaves the tick counter alone: the first tick after the rebuild runs *)
(* a pass only if it is a tick of the regular cadence, and otherwise it     *)
(* renders every display, also one that hosts a maximised window, from the  *)
(* rebuilt Normal state with the regular appearance.                        *)
C2_RefreshKeepsCadence ==
    (TickDone /\ log.afterRefresh) =>
        /\ log.pass <=> ticks % 10 = 1
        /\ ~log.pass =>
              /\ \A m \in DOMAIN taskbars : taskbars[m].second = "Normal"
              /\ \A i \in DOMAIN log.calls :
                    log.calls[i].appearance = config.TASKBAR_APPEARANCE

\* a tick right after a rebuild runs no pass and leaves a display with a
\* maximised window in state Normal
C2_Witness ==
    /\ TickDone /\ log.afterRefresh /\ ~log.pass
    /\ \E m \in DOMAIN taskbars :
          /\ config.DYNAMIC_WS /\ HostsMaximised(m) /\ ~peek_active
          /\ taskbars[m].second = "Normal"

\* entry i of the history is a call with ACCENT_NORMAL
NormalCall(i) == history[i].appearance = "ACCENT_NORMAL"

\* the last call before entry i on the same surface, or 0
PreviousOn(i) ==
    LET earlier == {j \in 1 .. i - 1 : history[j].window = history[i].window}
    IN  IF earlier = {} THEN 0 ELSE CHOOSE j \in earlier : \A k \in earlier : k <= j

(* C3: a SetWindowBlur call with ACCENT_NORMAL never issues the compositing *)
(* call, and sends WM_THEMECHANGED only if the previous call on that        *)
(* surface was not ACCENT_NORMAL or there was none (and, with the           *)
(* compositing API present, always then); so of consecutive Normal calls on *)
(* a surface only the first can send the message.                           *)
C3_NormalMemoized ==
    \A i \in DOMAIN history :
        NormalCall(i) =>
            /\ history[i].swca = <<>>
            /\ Len(history[i].theme) <= 1
            /\ (history[i].theme # <<>>) <=>
                  (swcaAvailable /\ (PreviousOn(i) = 0 \/ ~NormalCall(PreviousOn(i))))

\* three consecutive Normal calls on one surface: the first sends the
\* message, the second and the third send nothing
C3_Witness ==
    /\ Len(history) = 3
    /\ \A i \in 1 .. 3 : history[i].window = 1 /\ NormalCall(i)
    /\ history[1].theme = <<1>>
    /\ history[2].theme = <<>> /\ history[3].theme = <<>>

\* the appearance the claim derives from a display's state
ClaimedAppearance(state) ==
    IF state = "Normal" THEN config.TASKBAR_APPEARANCE
    ELSE IF state = "WindowMaximised" THEN config.DYNAMIC_APPEARANCE
    ELSE "ACCENT_NORMAL"

\* the colour the claim derives from a display's state
ClaimedColor(state) ==
    IF state = "Normal" THEN config.TASKBAR_COLOR
    ELSE IF state = "WindowMaximised"
         THEN (IF config.DYNAMIC_USE_REGULAR_COLOR THEN config.TASKBAR_COLOR
               ELSE config.DYNAMIC_COLOR)
    ELSE NullColor

\* on the last tick SetWindowBlur was called exactly once per tracked display,
\* with the appearance and colour derived from the display's state
AppliedOncePerDisplay ==
    /\ Len(log.calls) = Cardinality(DOMAIN taskbars)
    /\ \A m \in DOMAIN taskbars :
          /\ Cardinality(CallsOn(log.calls, taskbars[m].first)) = 1
          /\ \A i \in CallsOn(log.calls, taskbars[m].first) :
                /\ log.calls[i].appearance = ClaimedAppearance(taskbars[m].second)
                /\ log.calls[i].color = ClaimedColor(taskbars[m].second)

\* the number of compositing calls of the last tick for display m
CompositingCalls(m) == Cardinality(CallsOn(log.swca, taskbars[m].first))

(* C4 as stated: on every tick SetWindowBlur is called once per tracked     *)
(* display with the derived appearance and colour, and a derived accent     *)
(* other than Normal gives exactly one compositing call for that display.   *)
C4_Original ==
    TickDone =>
        /\ AppliedOncePerDisplay
        /\ \A m \in DOMAIN taskbars :
              ClaimedAppearance(taskbars[m].second) # "ACCENT_NORMAL"
              => CompositingCalls(m) = 1

(* C4 amended: on every tick SetWindowBlur is called once per tracked       *)
(* display with the derived appearance and colour; with the compositing API *)
(* present a derived accent other than Normal gives exactly one compositing *)
(* call for that display on that tick and a derived Normal gives none;      *)
(* without the API no compositing call is made.                             *)
C4_AppliedEveryTick ==
    TickDone =>
        /\ AppliedOncePerDisplay
        /\ \A m \in DOMAIN taskbars :
              CompositingCalls(m) =
                  IF swcaAvailable /\ ClaimedAppearance(taskbars[m].second) # "ACCENT_NORMAL"
                  THEN 1 ELSE 0
        /\ Len(log.swca) <= Len(log.calls)

\* a tick without a pass issues the compositing call for a display that is
\* still in state WindowMaximised, with the regular colour
C4_Witness ==
    /\ TickDone /\ ~log.pass /\ swcaAvailable
    /\ \E m \in DOMAIN taskbars :
          /\ taskbars[m].second = "WindowMaximised"
          /\ config.DYNAMIC_USE_REGULAR_COLOR
          /\ CompositingCalls(m) = 1

\* 0xAARRGGBB with the red and the blue byte exchanged
Exchanged(color) == <<color[1], color[4], color[3], color[2]>>

(* C5 as stated: for every colour and every accent other than Normal the    *)
(* colour of the compositing call is the input with red and blue exchanged  *)
(* and alpha and green unchanged; exchanging twice gives the input.         *)
C5_Original ==
    \A i \in DOMAIN history :
        /\ \A k \in DOMAIN history[i].swca :
              history[i].swca[k].color = Exchanged(history[i].color)
        /\ SwapColor(SwapColor(history[i].color)) = history[i].color

(* C5 amended: the colour of the compositing call is the input with red and *)
(* blue exchanged and green unchanged, without carry between the bytes; the *)
(* alpha byte is unchanged except for ACCENT_ENABLE_FLUENT with alpha 0x00, *)
(* where it is 0x01; the exchange applied twice gives the input.            *)
C5_RedBlueSwapped ==
    \A i \in DOMAIN history :
        /\ \A k \in DOMAIN history[i].swca :
              LET sent == history[i].swca[k].color
                  want == Exchanged(history[i].color)
              IN  /\ sent[2] = want[2] /\ sent[3] = want[3] /\ sent[4] = want[4]
                  /\ (history[i].appearance # "ACCENT_ENABLE_FLUENT" \/ history[i].color[1] # 0)
                     => sent[1] = want[1]
                  /\ (history[i].appearance = "ACCENT_ENABLE_FLUENT" /\ history[i].color[1] = 0)
                     => sent[1] = 1
        /\ SwapColor(SwapColor(history[i].color)) = history[i].color

\* pure blue 0xFF0000FF is sent as 0xFFFF0000
C5_Witness ==
    /\ Len(history) = 1
    /\ history[1].color = <<255, 0, 0, 255>>
    /\ history[1].appearance = "ACCENT_ENABLE_BLURBEHIND"
    /\ Len(history[1].swca) = 1
    /\ history[1].swca[1].color = <<255, 255, 0, 0>>

(* C6: with ACCENT_ENABLE_FLUENT and alpha 0x00 the colour applied has      *)
(* alpha 0x01 and the exchanged RGB bytes; with Fluent and any other alpha, *)
(* and with every other accent and any alpha, the alpha byte is applied     *)
(* unchanged.                                                               *)
C6_FluentZeroAlpha ==
    \A i \in DOMAIN history :
        \A k \in DOMAIN history[i].swca :
            LET sent == history[i].swca[k].color
                given == history[i].color
            IN  IF history[i].appearance = "ACCENT_ENABLE_FLUENT" /\ given[1] = 0
                THEN sent = <<1, given[4], given[3], given[2]>>
                ELSE sent[1] = given[1]

\* Fluent with 0x00FF1001 is applied as 0x010110FF
C6_Witness ==
    /\ Len(history) = 1
    /\ history[1].appearance = "ACCENT_ENABLE_FLUENT"
    /\ history[1].color = <<0, 255, 16, 1>>
    /\ Len(history[1].swca) = 1
    /\ history[1].swca[1].color = <<1, 1, 16, 255>>

\* the last entry before i on which the toggle was issued, or 0
LastApplication(i) ==
    LET earlier == {j \in 1 .. i - 1 : history[j].toggled}
    IN  IF earlier = {} THEN 0 ELSE CHOOSE j \in earlier : \A k \in earlier : k <= j

\* the value last applied before entry i (shown, before any application)
LastApplied(i) == IF LastApplication(i) = 0 THEN TRUE ELSE history[LastApplication(i)].status

\* the primary taskbar cached at the last application before entry i (the
\* taskbar of the first call, before any application)
LastTaskbar(i) ==
    IF LastApplication(i) = 0 THEN history[1].taskbar
    ELSE history[LastApplication(i)].taskbar

(* C7: a TogglePeek call issues the OS-level toggle if and only if the      *)
(* requested value differs from the value last applied or the primary       *)
(* taskbar differs from the one cached at the last application; after the   *)
(* call both cached values are the requested value and the current primary  *)
(* taskbar.  The requests True, True, False from the initial state issue    *)
(* exactly one toggle, on False.                                            *)
C7_PeekHysteresis ==
    /\ \A i \in DOMAIN history :
          history[i].toggled <=>
              (history[i].status # LastApplied(i) \/ history[i].taskbar # LastTaskbar(i))
    /\ log.op = "peek" =>
          /\ cached_peek = history[Len(history)].status
          /\ cached_taskbar = main_taskbar
    /\ (/\ Len(history) = 3
        /\ history[1].status /\ history[2].status /\ ~history[3].status
        /\ \A i \in 1 .. 3 : history[i].taskbar = history[1].taskbar)
       => (~history[1].toggled /\ ~history[2].toggled /\ history[3].toggled)

\* True, True, False on one taskbar: the toggle is issued on the third call only
C7_Witness ==
    /\ Len(history) = 3
    /\ history[1].status /\ history[2].status /\ ~history[3].status
    /\ \A i \in 1 .. 3 : history[i].taskbar = 1
    /\ ~history[1].toggled /\ ~history[2].toggled /\ history[3].toggled
    /\ log.toggles = <<[status |-> FALSE, taskbar |-> 1]>>

(* C8 as stated: the peek apply rule is evaluated on every tick: after any  *)
(* tick the value applied is should_show_peek and the taskbar it was        *)
(* applied to is the current primary taskbar.                               *)
C8_Original ==
    TickDone => (cached_peek = should_show_peek /\ cached_taskbar = main_taskbar)

(* C8 amended: the peek apply rule is evaluated only on the ticks on which  *)
(* a reconciliation pass runs: on such a tick TogglePeek is called once     *)
(* with should_show_peek and afterwards the cached value and taskbar are    *)
(* should_show_peek and the primary taskbar; on every other tick TogglePeek *)
(* is not called and no toggle is issued, also when the primary taskbar has *)
(* changed since the last application.                                      *)
C8_PeekAppliedOnPass ==
    TickDone =>
        IF log.pass
        THEN /\ log.peekCalls = <<should_show_peek>>
             /\ cached_peek = should_show_peek
             /\ cached_taskbar = main_taskbar
        ELSE log.peekCalls = <<>> /\ log.toggles = <<>>

\* a tick without a pass, after the handles were refreshed to a new primary
\* taskbar: no toggle, the cache still names the old taskbar
C8_Witness ==
    /\ TickDone /\ ~log.pass
    /\ cached_taskbar # Unset /\ cached_taskbar # main_taskbar
    /\ log.toggles = <<>>

(* C9: a lookup of a display that has no tracker entry, made during a pass  *)
(* for a maximised window or for the Start menu, is absorbed: the tick      *)
(* completes, every tracked display is applied, the tracker keeps its keys  *)
(* and the poll loop keeps running.                                         *)
C9_LookupFailureAbsorbed ==
    (log.op = "tick" /\ log.thrown) =>
        /\ pc \in {"pump", "shutdown"}
        /\ Len(log.calls) = Cardinality(DOMAIN taskbars)

(* C10: when the loop has ended: with NewInstance nothing is saved, peek is *)
(* not restored and no appearance is applied; with UserAction the           *)
(* configuration is saved, with UserActionNoSave it is not, and in both     *)
(* cases TogglePeek(true) is called and ACCENT_NORMAL is applied to every   *)
(* tracked display, after which every tracked surface shows the normal      *)
(* appearance and the peek button is shown.                                 *)
C10_ExitRestores ==
    pc = "exited" =>
        IF exit_reason = "NewInstance"
        THEN ~log.saved /\ log.peekCalls = <<>> /\ log.calls = <<>>
        ELSE /\ log.saved <=> exit_reason = "UserAction"
             /\ log.peekCalls = <<TRUE>>
             /\ Len(log.calls) = Cardinality(DOMAIN taskbars)
             /\ \A m \in DOMAIN taskbars :
                   /\ \E i \in DOMAIN log.calls :
                         /\ log.calls[i].window = taskbars[m].first
                         /\ log.calls[i].appearance = "ACCENT_NORMAL"
                   /\ surfAccent[taskbars[m].first] = "ACCENT_NORMAL"
             /\ peekBtn[osMain]

\* the last step was a SetTaskbarBlur call that ran a pass and returned
PassDone == TickDone /\ log.pass

(* C11: after every reconciliation pass, every display of the tracker with  *)
(* no qualifying maximised window on it and without the Start menu open on  *)
(* it has state Normal, whatever its state before the pass; every state is  *)
(* one of Normal, WindowMaximised, StartMenuOpen.                           *)
C11_PassDefaultsNormal ==
    PassDone =>
        \A m \in DOMAIN taskbars :
            /\ taskbars[m].second \in MONITORSTATE
            /\ (~HostsMaximised(m) /\ startMon # m) => taskbars[m].second = "Normal"

\* a display that was WindowMaximised before the pass and hosts no maximised
\* window any more is Normal after a pass that scanned other windows
C11_Witness ==
    /\ PassDone /\ config.DYNAMIC_WS /\ windows # <<>>
    /\ \E m \in DOMAIN taskbars :
          /\ log.before.taskbars[m].second = "WindowMaximised"
          /\ ~HostsMaximised(m) /\ startMon # m
          /\ taskbars[m].second = "Normal"

\* C12's scene: the primary display only, peek policy Dynamic, one window, which
\* qualifies and is maximised on the primary display, Start menu closed, no peek
OnePrimaryDynamic ==
    /\ DOMAIN taskbars = {"M1"}
    /\ config.PEEK = "Dynamic"
    /\ Len(windows) = 1 /\ HostsMaximised("M1")
    /\ startMon = NoMonitor
    /\ ~peek_active

(* C12 as stated: in that scene the primary display is WindowMaximised and  *)
(* should_show_peek is true after one pass, whatever DYNAMIC_WS is.         *)
C12_Original ==
    (PassDone /\ OnePrimaryDynamic) =>
        taskbars["M1"].second = "WindowMaximised" /\ should_show_peek

(* C12 amended: in that scene should_show_peek is true after one pass, and  *)
(* the primary display is WindowMaximised if DYNAMIC_WS is enabled and      *)
(* Normal if it is not.                                                     *)
C12_DynamicPeekScene ==
    (PassDone /\ OnePrimaryDynamic) =>
        /\ should_show_peek
        /\ taskbars["M1"].second = IF config.DYNAMIC_WS THEN "WindowMaximised" ELSE "Normal"

\* the scene with DYNAMIC_WS enabled, entered with should_show_peek false
C12_Witness ==
    /\ PassDone /\ OnePrimaryDynamic /\ config.DYNAMIC_WS
    /\ ~log.before.should_show_peek
    /\ taskbars["M1"].second = "WindowMaximised" /\ should_show_peek

\* C13's scene: two displays, peek policy Disabled, a qualifying window
\* maximised on the secondary display and none on the primary
SecondaryOnlyMaximised ==
    /\ DOMAIN taskbars = {"M1", "M2"}
    /\ config.PEEK = "Disabled"
    /\ HostsMaximised("M2") /\ ~HostsMaximised("M1")

\* neither the Start menu rule nor the regular-on-peek rule applies
NoOverride ==
    /\ ~(config.DYNAMIC_START /\ startMon # NoMonitor)
    /\ ~(config.DYNAMIC_REGULAR_ON_PEEK /\ peek_active)

(* C13 as stated: in that scene the secondary display is WindowMaximised    *)
(* and the primary display Normal after a pass.                             *)
C13_Original ==
    (PassDone /\ SecondaryOnlyMaximised) =>
        /\ taskbars["M2"].second = "WindowMaximised"
        /\ taskbars["M1"].second = "Normal"

(* C13 amended: in that scene the primary display is never WindowMaximised  *)
(* after a pass and should_show_peek is false; with DYNAMIC_WS enabled, the *)
(* Start menu rule not applying and the regular-on-peek rule not applying,  *)
(* the secondary display is WindowMaximised and the primary display Normal. *)
C13_MaximisedStaysOnItsDisplay ==
    (PassDone /\ SecondaryOnlyMaximised) =>
        /\ taskbars["M1"].second # "WindowMaximised"
        /\ ~should_show_peek
        /\ (config.DYNAMIC_WS /\ NoOverride) =>
              /\ taskbars["M2"].second = "WindowMaximised"
              /\ taskbars["M1"].second = "Normal"

\* the scene with DYNAMIC_WS enabled and no override: only the secondary
\* display changed
C13_Witness ==
    /\ PassDone /\ SecondaryOnlyMaximised /\ config.DYNAMIC_WS /\ NoOverride
    /\ taskbars["M2"].second = "WindowMaximised"
    /\ taskbars["M1"].second = "Normal"
    /\ log.before.taskbars["M1"].second = "Normal"

\* the displays that host a taskbar now
LiveDisplays ==
    {monitor(osMain)} \cup (IF osSecond # NullWindow THEN {monitor(osSecond)} ELSE {})

(* C14: after every RefreshHandles the tracker has exactly one entry per     *)
(* display that hosts a taskbar, each with that display's live taskbar and   *)
(* state Normal, and main_taskbar is the primary taskbar's entry; a          *)
(* SetTaskbarBlur call, with or without a pass, leaves the set of entries    *)
(* and their taskbars as they were.                                          *)
C14_TrackerRebuilt ==
    /\ log.op = "refresh" =>
          /\ DOMAIN taskbars = LiveDisplays
          /\ \A m \in DOMAIN taskbars :
                /\ taskbars[m].second = "Normal"
                /\ Live(taskbars[m].first) /\ monitor(taskbars[m].first) = m
          /\ main_taskbar = osMain
          /\ taskbars[monitor(osMain)].first = main_taskbar
    /\ log.op = "tick" =>
          /\ DOMAIN taskbars = DOMAIN log.before.taskbars
          /\ \A m \in DOMAIN taskbars : taskbars[m].first = log.before.taskbars[m].first

\* a rebuild after the second display went away: its entry, which the program
\* had applied an appearance to, is gone
C14_Witness ==
    /\ log.op = "refresh" /\ ticks > 0
    /\ osSecond = NullWindow /\ SecondHandle \in DOMAIN is_normal
    /\ DOMAIN taskbars = {"M1"}

(* C15: with the compositing API entry point unavailable, no SetWindowBlur   *)
(* call, whatever its accent, issues the compositing call or the             *)
(* WM_THEMECHANGED message or writes the per-surface Normal memo, and no     *)
(* surface changes its appearance.                                           *)
C15_NoApiNoEffect ==
    ~swcaAvailable =>
        /\ DOMAIN is_normal = {}
        /\ \A w \in Surfaces : surfAccent[w] = "ACCENT_NORMAL"
        /\ log.swca = <<>> /\ log.theme = <<>>
        /\ \A i \in DOMAIN history : history[i].swca = <<>> /\ history[i].theme = <<>>

\* without the entry point, a Normal call and a Fluent call have been made
C15_Witness ==
    /\ ~swcaAvailable
    /\ \E i \in DOMAIN history : NormalCall(i)
    /\ \E i \in DOMAIN history : history[i].appearance = "ACCENT_ENABLE_FLUENT"

(* C16: the detached tasks started from menu handlers write nothing that    *)
(* the poll loop reads during a tick: the configuration the apply loop of a  *)
(* SetTaskbarBlur call reads is the one the pass of that call read.          *)
C16_TickReadsOneConfig == pc = "apply" => config = tickConfig

\* the display of the primary taskbar
Primary == monitor(main_taskbar)

\* some window passes the filter, is not maximised on the current desktop, is
\* not minimised and passes the real-window predicate
HostsOtherRealWindow ==
    \E i \in DOMAIN windows :
        /\ windows[i].visible /\ ~windows[i].cloaked /\ ~windows[i].blacklisted
        /\ ~(windows[i].state = "SW_MAXIMIZE" /\ windows[i].on_current_desktop)
        /\ windows[i].state # "SW_SHOWMINIMIZED" /\ windows[i].real

\* should_show_peek as the peek policy and the windows determine it
ClaimedPeek ==
    CASE config.PEEK = "Enabled" -> TRUE
      [] config.PEEK = "Disabled" -> FALSE
      [] config.PEEK = "Dynamic" -> HostsMaximised(Primary)
      [] config.PEEK = "DynamicGenerous" -> HostsMaximised(Primary) \/ HostsOtherRealWindow

(* C17: with DYNAMIC_WS disabled, after every pass each display's state is   *)
(* Normal or StartMenuOpen, whatever the windows are; the peek decision does *)
(* not depend on the flag: under Dynamic and DynamicGenerous a qualifying    *)
(* maximised window on the primary display still sets should_show_peek.      *)
C17_TrackingOff ==
    (PassDone /\ ~config.DYNAMIC_WS) =>
        /\ \A m \in DOMAIN taskbars : taskbars[m].second \in {"Normal", "StartMenuOpen"}
        /\ (config.PEEK \in {"Dynamic", "DynamicGenerous"} /\ HostsMaximised(Primary))
              => should_show_peek

\* tracking off, policy Dynamic, a maximised window on the primary display:
\* the display stays Normal and should_show_peek turns true
C17_Witness ==
    /\ PassDone /\ ~config.DYNAMIC_WS /\ config.PEEK = "Dynamic"
    /\ HostsMaximised(Primary)
    /\ taskbars[Primary].second = "Normal"
    /\ ~log.before.should_show_peek /\ should_show_peek

(* C18: if DYNAMIC_WS and DYNAMIC_REGULAR_ON_PEEK are enabled and            *)
(* peek_active is true when the pass reads it, every display is Normal after *)
(* the pass, also one with a qualifying maximised window and the one the     *)
(* Start menu is open on; should_show_peek is what the peek policy and the   *)
(* windows make it.                                                          *)
C18_RegularOnPeek ==
    (PassDone /\ config.DYNAMIC_WS /\ config.DYNAMIC_REGULAR_ON_PEEK /\ peek_active) =>
        /\ \A m \in DOMAIN taskbars : taskbars[m].second = "Normal"
        /\ should_show_peek = ClaimedPeek

\* the rule applied with a maximised window on the primary display and the
\* Start menu open on the secondary display
C18_Witness ==
    /\ PassDone /\ config.DYNAMIC_WS /\ config.DYNAMIC_REGULAR_ON_PEEK /\ peek_active
    /\ config.DYNAMIC_START /\ startMon = "M2" /\ DOMAIN taskbars = {"M1", "M2"}
    /\ HostsMaximised("M1") /\ config.PEEK = "Dynamic" /\ should_show_peek
    /\ \A m \in DOMAIN taskbars : taskbars[m].second = "Normal"

(* C19: should_show_peek after a pass does not depend on its value before:   *)
(* it is true under Enabled, false under Disabled, under Dynamic true        *)
(* exactly if a qualifying maximised window is on the primary display, and   *)
(* under DynamicGenerous true exactly if that holds or some qualifying       *)
(* window that is not maximised on the current desktop is not minimised and  *)
(* passes the real-window predicate.                                         *)
C19_PeekDecision == PassDone => should_show_peek = ClaimedPeek

\* DynamicGenerous, no maximised window on the primary display, entered with
\* should_show_peek false: another real window turns it true
C19_Witness ==
    /\ PassDone /\ config.PEEK = "DynamicGenerous"
    /\ ~HostsMaximised(Primary) /\ HostsOtherRealWindow
    /\ ~log.before.should_show_peek /\ should_show_peek

(* C20: only the exit handlers write is_running and exit_reason, and        *)
(* is_running never returns to true; the handler's request is followed by    *)
(* the SetTaskbarBlur call of the same iteration, no iteration starts with   *)
(* is_running false, the code after the loop runs only once is_running is    *)
(* false, and a request always leads to the end of the process (the return   *)
(* from wWinMain, or termination by an exception SetTaskbarBlur lets out).   *)
C20_TerminationChecked ==
    /\ [][(is_running' = is_running /\ exit_reason' = exit_reason)
            \/ log'.op = "exit_request"]_vars
    /\ [][~is_running => ~is_running']_vars
    /\ [](log.op = "exit_request" => pc = "tick" /\ ~is_running)
    /\ [](pc = "pump" => is_running)
    /\ [](pc \in {"shutdown", "exited"} => ~is_running)
    /\ (~is_running ~> pc \in {"exited", "crashed"})

\* the loop ended after the tick that followed an exit without saving
C20_Witness ==
    /\ pc = "exited" /\ ~is_running /\ exit_reason = "UserActionNoSave"
    /\ log.op = "shutdown" /\ ~log.saved /\ ticks > 1

(* C21: every message that is pending when the iteration's PeekMessage     *)
(* runs has been dispatched to its handler before the SetTaskbarBlur call    *)
(* of the same iteration.                                                    *)
C21_PendingDispatchedBeforeTick ==
    (pc = "tick" /\ log.op = "dispatch") => Len(log.dispatched) = log.pending

\* the sequences EnumWindows can visit the windows ws in
Reorderings(ws) ==
    { [i \in 1 .. Len(ws) |-> ws[p[i]]] : p \in Permutations(1 .. Len(ws)) }

\* states and should_show_peek after a pass that starts from the tracker tb
\* and visits the windows in the order ws
OutcomeOf(tb, ws) ==
    LET sc == ScanOf(tb, ws)
    IN  [taskbars |-> PeekNormalised(StartMarked(sc)).taskbars,
         should_show_peek |-> sc.should_show_peek]

\* every window is on a display that has a tracker entry
AllTracked == \A i \in DOMAIN windows : windows[i].monitor \in DOMAIN taskbars

(* C22: if every window is on a display with a tracker entry, the states of  *)
(* the displays and should_show_peek after a reconciliation pass are the     *)
(* same for every order in which EnumWindows visits the windows.             *)
C22_OrderIndependent ==
    (PassDone /\ AllTracked) =>
        \A ws \in Reorderings(windows) :
            OutcomeOf(log.before.taskbars, ws) =
                [taskbars |-> taskbars, should_show_peek |-> should_show_peek]

\* DynamicGenerous with a maximised window on the second display and another
\* real window on the primary one: both orders mark the second display and
\* show the button
C22_Witness ==
    /\ PassDone /\ AllTracked /\ config.DYNAMIC_WS /\ config.PEEK = "DynamicGenerous"
    /\ Len(windows) = 2 /\ windows[1] # windows[2]
    /\ HostsMaximised("M2") /\ ~HostsMaximised("M1") /\ HostsOtherRealWindow
    /\ ~(config.DYNAMIC_REGULAR_ON_PEEK /\ peek_active) /\ startMon = NoMonitor
    /\ taskbars["M2"].second = "WindowMaximised" /\ should_show_peek

(* C23: after every reconciliation pass the peek button of the live primary *)
(* taskbar is shown exactly if should_show_peek is true, also on the first   *)
(* pass of an instance that found the button hidden by its predecessor.      *)
C23_PeekButtonMatches ==
    (PassDone /\ main_taskbar = osMain) => peekBtn[osMain] = should_show_peek

====
